---- MODULE Spec2Model ----
(***************************************************************************)
(* Model of the Patient validation model                                   *)
(*   src/05- optional - Pydantic Crash Course/07-combined_example.py       *)
(* and of the /sort, /view and /patient endpoints of                       *)
(*   src/04-path-query-params/main.py.                                     *)
(*                                                                         *)
(* Representation.                                                         *)
(*  - A Python str is a sequence of one-character strings; an e-mail text  *)
(*    is a sequence of tokens in which "@" is the separator character and  *)
(*    every other token stands for a run of characters without "@".        *)
(*  - A Python float is a record [m, e] standing for m * 2^e (binary64     *)
(*    with its real exponent range; the mantissas used are small enough to *)
(*    be exact).                                                           *)
(*  - A raw input value is a tagged record [t, v]: t is the Python type    *)
(*    the validator meets ("missing" for an absent key, "bad" for a value  *)
(*    the field's type rejects).                                           *)
(***************************************************************************)
EXTENDS Integers, Sequences, FiniteSets, TLC

VARIABLES
    pc,         \* caller's position: "idle", "returned" (instance bound), "raised"
    raw,        \* the keyword arguments given to Patient(**data)
    patient,    \* the instance held by the caller (its __dict__), or NoPatient
    validated,  \* the field values the instance had when validation returned it
    exc,        \* the exception raised by the last operation, or NoError
    trace,      \* validation stages run by the construction, in order
    seen,       \* what validate_emergency_contact was called with, or NoPatient
    assigns,    \* number of caller mutations of the instance so far
    lastAssign, \* the caller's last assignment to an attribute, or NoAssign
    lastBmi,    \* result of the caller's last read of patient.bmi
    data,       \* content of patients.json: id -> record
    request,    \* last request served by the API
    response,   \* its response
    loads       \* number of load_data() calls made while serving it

vars == <<pc, raw, patient, validated, exc, trace, seen, assigns, lastAssign, lastBmi,
          data, request, response, loads>>

patientVars == <<pc, raw, patient, validated, exc, trace, seen, assigns, lastAssign, lastBmi>>
apiVars == <<data, request, response, loads>>

(***************************************************************************)
(* Bounds and program constants                                            *)
(***************************************************************************)
MaxAssign == 1          \* caller mutations explored after a construction
NPatients == 3          \* records in patients.json

MaxLength == 50         \* name: Field(max_length=50)
AgeGt == 0              \* age: Field(gt=0, ...)
AgeLt == 120            \* age: Field(..., lt=120)
WeightGt == 0           \* weight: Field(gt=0)
HeightGt == 0           \* height: Field(gt=0)
MaxAllergies == 5       \* allergies: Field(max_length=5)
ElderlyAge == 60        \* model.age > 60
BmiDigits == 2          \* round(bmi_value, 2)
FloatMaxExp == 1024     \* binary64: |x| >= 2^1024 overflows
FloatMinExp == -1074    \* binary64: smallest subnormal is 2^-1074

NoPatient == [t |-> "none"]
NoError == [type |-> "none", errors |-> <<>>]
NoAssign == [f |-> "none"]

(***************************************************************************)
(* str                                                                     *)
(***************************************************************************)
\* str.upper() of one character: full Unicode case mapping, which sends
\* U+00DF (LATIN SMALL LETTER SHARP S, written "sz" here) to the two
\* characters "SS".
UpperChar(c) ==
    CASE c = "a" -> <<"A">>
      [] c = "o" -> <<"O">>
      [] c = "h" -> <<"H">>
      [] c = "n" -> <<"N">>
      [] c = "e" -> <<"E">>
      [] c = "x" -> <<"X">>
      [] c = "sz" -> <<"S", "S">>
      [] OTHER   -> <<c>>

RECURSIVE Upper(_)
Upper(s) == IF s = <<>> THEN <<>> ELSE UpperChar(Head(s)) \o Upper(Tail(s))

LowerChars == {"a", "o", "h", "n", "e", "x", "sz"}

\* str.split("@") on a token sequence: the list of the runs between separators.
RECURSIVE SplitAt(_, _)
SplitAt(s, cur) ==
    IF s = <<>> THEN <<cur>>
    ELSE IF Head(s) = "@" THEN <<cur>> \o SplitAt(Tail(s), <<>>)
    ELSE SplitAt(Tail(s), Append(cur, Head(s)))

Split(s) == SplitAt(s, <<>>)

RECURSIVE Join(_)
Join(parts) ==
    IF Len(parts) = 1 THEN parts[1]
    ELSE parts[1] \o <<"@">> \o Join(Tail(parts))

(***************************************************************************)
(* float                                                                   *)
(***************************************************************************)
F(m, e) == [m |-> m, e |-> e]

Pow2(k) == 2 ^ k

\* m >= 2^k for a mantissa 0 < m < 2^30
GePow2(m, k) == IF k <= 0 THEN TRUE ELSE IF k >= 30 THEN FALSE ELSE m >= Pow2(k)

\* m <= 2^k for a mantissa 0 < m < 2^30
LePow2(m, k) == IF k < 0 THEN FALSE ELSE IF k >= 30 THEN TRUE ELSE m <= Pow2(k)

FloatGt(x, bound) == x.m > bound     \* x > bound for bound = 0: the sign of m

\* x ** 2: OverflowError when the result is out of range, 0.0 when it
\* underflows (float_pow clears ERANGE on underflow).
FloatSquare(x) ==
    LET m2 == x.m * x.m
        e2 == 2 * x.e
    IN IF m2 = 0 THEN [ok |-> TRUE, v |-> F(0, 0), err |-> "none"]
       ELSE IF GePow2(m2, FloatMaxExp - e2)
            THEN [ok |-> FALSE, v |-> F(0, 0), err |-> "OverflowError"]
       ELSE IF LePow2(m2, (FloatMinExp - 1) - e2)
            THEN [ok |-> TRUE, v |-> F(0, 0), err |-> "none"]
       ELSE [ok |-> TRUE, v |-> F(m2, e2), err |-> "none"]

\* a / b as an exact fraction num/den; ZeroDivisionError when b == 0.0
FloatDiv(a, b) ==
    IF b.m = 0 THEN [ok |-> FALSE, num |-> 0, den |-> 1, err |-> "ZeroDivisionError"]
    ELSE LET d == a.e - b.e
         IN [ok |-> TRUE,
             num |-> a.m * (IF d > 0 THEN Pow2(d) ELSE 1),
             den |-> b.m * (IF d < 0 THEN Pow2(-d) ELSE 1),
             err |-> "none"]

RECURSIVE Pow10(_)
Pow10(k) == IF k = 0 THEN 1 ELSE 10 * Pow10(k - 1)

\* round(num/den, digits) for num/den >= 0, as a count of 10^-digits units:
\* round half to even.
Round(num, den, digits) ==
    LET n == num * Pow10(digits)
        q == n \div den
        r == n % den
    IN IF 2 * r > den THEN q + 1
       ELSE IF 2 * r < den THEN q
       ELSE IF q % 2 = 0 THEN q ELSE q + 1

(***************************************************************************)
(* Raw inputs                                                              *)
(***************************************************************************)
Raw(t, v) == [t |-> t, v |-> v]
\* an absent key, and a value the field's type rejects; v is a placeholder of
\* the field's type and is never read
Missing(v) == Raw("missing", v)
Bad(v) == Raw("bad", v)

Pad(n) == [i \in 1..n |-> "x"]
JohnDoe == <<"J", "o", "h", "n", " ", "D", "o", "e">>
NameTails == {<<>>, <<"a">>, <<"sz">>}
RawNames ==
    {Raw("str", Pad(n) \o t) : n \in {0, MaxLength - 1, MaxLength}, t \in NameTails}
        \cup {Raw("str", JohnDoe), Bad(<<>>)}

RawAges ==
    {Raw("int", a) : a \in {AgeGt - 1, AgeGt, AgeGt + 1, ElderlyAge, ElderlyAge + 1,
                            AgeLt - 1, AgeLt}} \cup {Bad(0)}

RawEmails ==
    {Raw("str", e) : e \in {<<"john", "@", "hdfc.com">>,
                            <<"john", "@", "HDFC.COM">>,
                            <<"john", "@", "icici.com">>,
                            <<"john", "@", "gmail.com">>,
                            <<"john", "@", "x", "@", "hdfc.com">>,
                            <<"john", "hdfc.com">>,
                            <<"@", "gmail.com">>}}

RawWeights == {Raw("float", F(70, 0)), Raw("float", F(0, 0))}

\* 1.75, 2.0, 2^-600, 2^600, 0.0, -1.75
RawHeights ==
    {Raw("float", h) : h \in {F(7, -2), F(1, 1), F(1, -600), F(1, 600), F(0, 0)}}

RawMarried == {Missing(FALSE)}

RawAllergies ==
    {Missing(<<>>)} \cup {Raw("list", [i \in 1..n |-> "pollen"]) : n \in {MaxAllergies, MaxAllergies + 1}}

Contacts == {<<>>, [emergency |-> "1234567890"], [phone |-> "98765"]}
RawContacts == {Raw("dict", c) : c \in Contacts}

Mumbai == [city |-> "Mumbai", state |-> "MH", pin_code |-> "400001"]
RawAddresses == {Raw("Address", Mumbai), Bad(Mumbai)}

RawInputs ==
    [name : RawNames, age : RawAges, email : RawEmails, weight : RawWeights,
     height : RawHeights, married : RawMarried, allergies : RawAllergies,
     contact_details : RawContacts, address : RawAddresses]

(***************************************************************************)
(* Field validation: type, declared constraints, then the field's          *)
(* after-validator.  A result is [ok, v, err, stages]; stages are the      *)
(* checks that ran, in order; a failing check ends the field's chain.      *)
(***************************************************************************)
Ok(v, stages) == [ok |-> TRUE, v |-> v, err |-> "none", stages |-> stages]
Fail(err, stages) == [ok |-> FALSE, v |-> 0, err |-> err, stages |-> stages]

None == [t |-> "None", v |-> <<>>]

\* a capitalize_name that returns its argument
capitalize_name_identity(value) == value

\* Patient.capitalize_name
capitalize_name(value) == Upper(value)

\* a name field whose validator runs in mode='before': the transformation
\* comes first and the length is checked on its result
NameFieldTransformFirst(x) ==
    IF x.t = "missing" THEN Fail("missing", <<>>)
    ELSE IF x.t # "str" THEN Fail("string_type", <<"name:str">>)
    ELSE IF Len(Upper(x.v)) > MaxLength
         THEN Fail("string_too_long", <<"name:str", "name:capitalize_name", "name:max_length">>)
    ELSE Ok(Upper(x.v), <<"name:str", "name:capitalize_name", "name:max_length">>)

\* name: Annotated[str, Field(max_length=50)] with @field_validator('name')
NameField(x) ==
    IF x.t = "missing" THEN Fail("missing", <<>>)
    ELSE IF x.t # "str" THEN Fail("string_type", <<"name:str">>)
    ELSE IF Len(x.v) > MaxLength
         THEN Fail("string_too_long", <<"name:str", "name:max_length">>)
    ELSE Ok(capitalize_name(x.v),
            <<"name:str", "name:max_length", "name:capitalize_name">>)

\* age: Annotated[int, Field(gt=0, lt=120)]
AgeField(x) ==
    IF x.t = "missing" THEN Fail("missing", <<>>)
    ELSE IF x.t # "int" THEN Fail("int_type", <<"age:int">>)
    ELSE IF ~(x.v > AgeGt) THEN Fail("greater_than", <<"age:int", "age:gt">>)
    ELSE IF ~(x.v < AgeLt) THEN Fail("less_than", <<"age:int", "age:gt", "age:lt">>)
    ELSE Ok(x.v, <<"age:int", "age:gt", "age:lt">>)

LowerToken(c) ==
    CASE c = "HDFC.COM" -> "hdfc.com"
      [] c = "ICICI.COM" -> "icici.com"
      [] OTHER -> c

Lower(s) == [i \in 1..Len(s) |-> LowerToken(s[i])]

\* EmailStr: one "@" between a non-empty local part and a non-empty domain;
\* the validated value is the normalised address, whose domain is lowercased.
EmailStr(text) ==
    LET parts == Split(text)
    IN IF Len(parts) = 2 /\ parts[1] # <<>> /\ parts[2] # <<>>
       THEN [ok |-> TRUE, v |-> Join(<<parts[1], Lower(parts[2])>>)]
       ELSE [ok |-> FALSE, v |-> text]

valid_domains == {<<"hdfc.com">>, <<"icici.com">>}

\* a validate_email_domain that returns the domain it checked
validate_email_domain_returns_domain(value) ==
    LET domain == Split(value)[2]
    IN IF domain \notin valid_domains
       THEN [ok |-> FALSE, v |-> value]
       ELSE [ok |-> TRUE, v |-> domain]

\* Patient.validate_email_domain: value.split("@")[1] must be a valid domain;
\* the value is returned as it came.
validate_email_domain(value) ==
    LET domain == Split(value)[2]
    IN IF domain \notin valid_domains
       THEN [ok |-> FALSE, v |-> value]
       ELSE [ok |-> TRUE, v |-> value]

\* email: EmailStr with @field_validator('email')
EmailField(x) ==
    IF x.t = "missing" THEN Fail("missing", <<>>)
    ELSE IF x.t # "str" THEN Fail("string_type", <<"email:str">>)
    ELSE LET e == EmailStr(x.v)
         IN IF ~e.ok THEN Fail("email_syntax", <<"email:str", "email:EmailStr">>)
            ELSE LET d == validate_email_domain(e.v)
                     st == <<"email:str", "email:EmailStr", "email:validate_email_domain">>
                 IN IF d.ok THEN Ok(d.v, st) ELSE Fail("invalid_domain", st)

\* weight, height: Annotated[float, Field(gt=0)]
PositiveFloatField(f, x, gt) ==
    IF x.t = "missing" THEN Fail("missing", <<>>)
    ELSE IF x.t # "float" THEN Fail("float_type", <<f \o ":float">>)
    ELSE IF ~FloatGt(x.v, gt) THEN Fail("greater_than", <<f \o ":float", f \o ":gt">>)
    ELSE Ok(x.v, <<f \o ":float", f \o ":gt">>)

WeightField(x) == PositiveFloatField("weight", x, WeightGt)
HeightField(x) == PositiveFloatField("height", x, HeightGt)

\* married: bool = False
MarriedField(x) ==
    IF x.t = "missing" THEN Ok(FALSE, <<>>)
    ELSE IF x.t # "bool" THEN Fail("bool_type", <<"married:bool">>)
    ELSE Ok(x.v, <<"married:bool">>)

\* allergies: Optional[List[str]] = Field(default=None, max_length=5)
AllergiesField(x) ==
    IF x.t = "missing" THEN Ok(None, <<>>)
    ELSE IF x.t = "None" THEN Ok(None, <<"allergies:optional">>)
    ELSE IF x.t # "list" THEN Fail("list_type", <<"allergies:list">>)
    ELSE IF Len(x.v) > MaxAllergies
         THEN Fail("too_long", <<"allergies:list", "allergies:max_length">>)
    ELSE Ok(x, <<"allergies:list", "allergies:max_length">>)

\* contact_details: Dict[str, str]
ContactField(x) ==
    IF x.t = "missing" THEN Fail("missing", <<>>)
    ELSE IF x.t # "dict" THEN Fail("dict_type", <<"contact_details:dict">>)
    ELSE Ok(x.v, <<"contact_details:dict">>)

\* address: Address
AddressField(x) ==
    IF x.t = "missing" THEN Fail("missing", <<>>)
    ELSE IF x.t # "Address" THEN Fail("model_type", <<"address:Address">>)
    ELSE Ok(x.v, <<"address:Address">>)

\* the fields of Patient, in declaration order
Fields == <<"name", "age", "email", "weight", "height", "married", "allergies",
            "contact_details", "address">>

ValidateField(f, x) ==
    CASE f = "name" -> NameField(x)
      [] f = "age" -> AgeField(x)
      [] f = "email" -> EmailField(x)
      [] f = "weight" -> WeightField(x)
      [] f = "height" -> HeightField(x)
      [] f = "married" -> MarriedField(x)
      [] f = "allergies" -> AllergiesField(x)
      [] f = "contact_details" -> ContactField(x)
      [] f = "address" -> AddressField(x)

RECURSIVE ErrorsFrom(_, _)
ErrorsFrom(res, i) ==
    IF i > Len(res) THEN <<>>
    ELSE (IF res[i].ok THEN <<>> ELSE <<[field |-> Fields[i], kind |-> res[i].err]>>)
             \o ErrorsFrom(res, i + 1)

RECURSIVE StagesFrom(_, _)
StagesFrom(res, i) ==
    IF i > Len(res) THEN <<>> ELSE res[i].stages \o StagesFrom(res, i + 1)

FieldIndex(f) == CHOOSE i \in 1..Len(Fields) : Fields[i] = f

\* a model-fields validator that stops at the first failing field
CollectFirstError(res) ==
    LET bad == {i \in 1..Len(res) : ~res[i].ok}
        last == IF bad = {} THEN Len(res) ELSE CHOOSE i \in bad : \A j \in bad : i <= j
    IN [errors |-> SubSeq(ErrorsFrom(res, 1), 1, 1),
        stages |-> StagesFrom(SubSeq(res, 1, last), 1),
        values |-> [f \in {Fields[i] : i \in 1..Len(Fields)} |-> res[FieldIndex(f)].v]]

\* What the model-fields validator returns for the per-field results res:
\* the errors of all failing fields, the stages run, the validated values.
Collect(res) ==
    [errors |-> ErrorsFrom(res, 1),
     stages |-> StagesFrom(res, 1),
     values |-> [f \in {Fields[i] : i \in 1..Len(Fields)} |-> res[FieldIndex(f)].v]]

\* The model-fields validator of BaseModel: every field of the class is
\* validated, in declaration order, and the errors of all of them are
\* collected.
ValidateFields(r) ==
    Collect([i \in 1..Len(Fields) |-> ValidateField(Fields[i], r[Fields[i]])])

\* the instance built from the validated field values
Assemble(values) ==
    [t |-> "Patient", name |-> values.name, age |-> values.age, email |-> values.email,
     weight |-> values.weight, height |-> values.height, married |-> values.married,
     allergies |-> values.allergies, contact_details |-> values.contact_details,
     address |-> values.address]

\* a validate_emergency_contact whose age test is off by one
validate_emergency_contact_off_by_one(model) ==
    IF model.age > ElderlyAge + 1 /\ "emergency" \notin DOMAIN model.contact_details
    THEN [ok |-> FALSE, v |-> model]
    ELSE [ok |-> TRUE, v |-> model]

\* Patient.validate_emergency_contact (mode='after')
validate_emergency_contact(model) ==
    IF model.age > ElderlyAge /\ "emergency" \notin DOMAIN model.contact_details
    THEN [ok |-> FALSE, v |-> model]
    ELSE [ok |-> TRUE, v |-> model]

ValidationError(errors) == [type |-> "ValidationError", errors |-> errors]

\* the mode='after' model validator, called with the assembled instance
RunModelValidator(stages, model) ==
    IF validate_emergency_contact(model).ok
    THEN [ok |-> TRUE, model |-> validate_emergency_contact(model).v, error |-> NoError,
          stages |-> stages \o <<"assemble", "validate_emergency_contact">>,
          seen |-> model]
    ELSE [ok |-> FALSE, model |-> NoPatient,
          error |-> ValidationError(
              <<[field |-> "__model__", kind |-> "missing_emergency"]>>),
          stages |-> stages \o <<"assemble", "validate_emergency_contact">>,
          seen |-> model]

\* what validation does once the fields are done (fv): with a failed field
\* it raises their errors; otherwise it assembles the instance and runs the
\* model validator on it.
AfterFields(fv) ==
    IF fv.errors # <<>>
    THEN [ok |-> FALSE, model |-> NoPatient, error |-> ValidationError(fv.errors),
          stages |-> fv.stages, seen |-> NoPatient]
    ELSE RunModelValidator(fv.stages, Assemble(fv.values))

\* BaseModel.__init__(**data)
ModelValidate(r) == AfterFields(ValidateFields(r))

\* Patient.bmi: self.weight / (self.height ** 2), rounded to 2 places
bmi(self) ==
    LET sq == FloatSquare(self.height)
    IN IF ~sq.ok THEN [ok |-> FALSE, v |-> 0, err |-> sq.err]
       ELSE LET q == FloatDiv(self.weight, sq.v)
            IN IF ~q.ok THEN [ok |-> FALSE, v |-> 0, err |-> q.err]
               ELSE [ok |-> TRUE, v |-> Round(q.num, q.den, BmiDigits), err |-> "none"]

NoBmi == [ok |-> FALSE, v |-> 0, err |-> "unread"]

\* line 88 of __init__: the print that reads self.bmi of the validated
\* instance mv.model; b is the outcome of that read.
InitPrint(mv, b) ==
    IF ~b.ok
    THEN [ok |-> FALSE, instance |-> NoPatient,
          error |-> [type |-> b.err, errors |-> <<>>],
          stages |-> Append(mv.stages, "bmi"), seen |-> mv.seen]
    ELSE [ok |-> TRUE, instance |-> mv.model, error |-> NoError,
          stages |-> Append(mv.stages, "bmi"), seen |-> mv.seen]

\* the body of __init__ after super().__init__(**data) ended as mv
AfterValidate(mv) ==
    IF ~mv.ok
    THEN [ok |-> FALSE, instance |-> NoPatient, error |-> mv.error,
          stages |-> mv.stages, seen |-> mv.seen]
    ELSE InitPrint(mv, bmi(mv.model))

\* Patient.__init__: validation, then the print that reads self.bmi; an
\* exception of either leaves the caller without an instance.
PatientInit(r) == AfterValidate(ModelValidate(r))

(***************************************************************************)
(* Operations of a caller of the Patient class                             *)
(***************************************************************************)
\* patient = Patient(**r)
Construct ==
    /\ pc = "idle"
    /\ \E o \in {PatientInit(raw)} :
          /\ pc' = IF o.ok THEN "returned" ELSE "raised"
          /\ patient' = o.instance
          /\ validated' = o.instance
          /\ exc' = o.error
          /\ trace' = o.stages
          /\ seen' = o.seen
    /\ UNCHANGED <<raw, assigns, lastAssign, lastBmi>>
    /\ UNCHANGED apiVars

\* patient.bmi
ReadBmi ==
    /\ pc = "returned"
    /\ lastBmi' = bmi(patient)
    /\ UNCHANGED <<pc, raw, patient, validated, exc, trace, seen, assigns, lastAssign>>
    /\ UNCHANGED apiVars

AssignableValues(f) ==
    CASE f = "age" -> {a.v : a \in {x \in RawAges : x.t = "int"}}
      [] f = "height" -> {h.v : h \in RawHeights}
      [] f = "contact_details" -> Contacts

\* the __setattr__ of a model that ignores assignments
SetAttrFrozen(self, f, v) == self

\* BaseModel.__setattr__ under the default model_config (neither frozen nor
\* validate_assignment): the value is stored as given.
SetAttr(self, f, v) == [self EXCEPT ![f] = v]

\* patient.<f> = v
Assign ==
    /\ pc = "returned"
    /\ assigns < MaxAssign
    /\ \E f \in {"age", "height", "contact_details"} :
         \E v \in AssignableValues(f) :
             /\ patient' = SetAttr(patient, f, v)
             /\ lastAssign' = [f |-> f, v |-> v]
    /\ assigns' = assigns + 1
    /\ UNCHANGED <<pc, raw, validated, exc, trace, seen, lastBmi>>
    /\ UNCHANGED apiVars

(***************************************************************************)
(* src/04-path-query-params/main.py                                        *)
(***************************************************************************)
\* patients.json: the records in file order (a dict keeps insertion order);
\* record i is stored under the key of index i.
PatientRecords == [height : {1, 2}, weight : {1, 2}, bmi : {1, 2}]
DataFiles == [1..NPatients -> PatientRecords]

\* load_data()
load_data == data

\* data.values()
Values(d) == [i \in 1..Len(d) |-> d[i]]

\* whether a sorts strictly before b
Before(a, b, key, reverse) == IF reverse THEN a[key] > b[key] ELSE a[key] < b[key]

\* x placed after every element that does not sort strictly after it
RECURSIVE Insert(_, _, _, _)
Insert(x, s, key, reverse) ==
    IF s = <<>> THEN <<x>>
    ELSE IF Before(x, Head(s), key, reverse) THEN <<x>> \o s
    ELSE <<Head(s)>> \o Insert(x, Tail(s), key, reverse)

RECURSIVE SortFrom(_, _, _, _, _)
SortFrom(s, i, acc, key, reverse) ==
    IF i > Len(s) THEN acc
    ELSE SortFrom(s, i + 1, Insert(s[i], acc, key, reverse), key, reverse)

\* a sort that ignores reverse
SortedIgnoringReverse(s, key, reverse) == SortFrom(s, 1, <<>>, key, FALSE)

\* sorted(s, key=lambda x: x[key], reverse=reverse): a stable sort
Sorted(s, key, reverse) == SortFrom(s, 1, <<>>, key, reverse)

valid_fields == {"height", "weight", "bmi"}

Omitted == "<omitted>"
SortByParams == {"height", "weight", "bmi", "age"}
OrderParams == {"ascending", "descending", "random", Omitted}

Reply(status, detail, body, n) ==
    [response |-> [status |-> status, detail |-> detail, body |-> body], loads |-> n]

\* sort_patients(sort_by, order)
sort_patients(sort_by, order) ==
    IF sort_by \notin valid_fields
    THEN Reply(400, "Invalid field", <<>>, 0)
    ELSE IF order \notin {"ascending", "descending"}
    THEN Reply(400, "Invalid order", <<>>, 0)
    ELSE Reply(200, "", Sorted(Values(load_data), sort_by, order = "descending"), 1)

\* GET /sort?sort_by=..&order=..   (order defaults to "ascending")
SortPatients ==
    \E sort_by \in SortByParams, order \in OrderParams :
        \E r \in {sort_patients(sort_by, IF order = Omitted THEN "ascending" ELSE order)} :
            /\ request' = [path |-> "/sort", sort_by |-> sort_by, order |-> order]
            /\ response' = r.response
            /\ loads' = r.loads
            /\ UNCHANGED data
            /\ UNCHANGED patientVars

\* GET /
Hello ==
    /\ request' = [path |-> "/", sort_by |-> "", order |-> ""]
    /\ response' = [status |-> 200, detail |-> "Patient Management System API", body |-> <<>>]
    /\ loads' = 0
    /\ UNCHANGED data
    /\ UNCHANGED patientVars

\* GET /about
About ==
    /\ request' = [path |-> "/about", sort_by |-> "", order |-> ""]
    /\ response' = [status |-> 200,
                    detail |-> "A fully functional API to manage your patients' records",
                    body |-> <<>>]
    /\ loads' = 0
    /\ UNCHANGED data
    /\ UNCHANGED patientVars

\* GET /view
View ==
    /\ request' = [path |-> "/view", sort_by |-> "", order |-> ""]
    /\ response' = [status |-> 200, detail |-> "", body |-> load_data]
    /\ loads' = 1
    /\ UNCHANGED data
    /\ UNCHANGED patientVars

\* view_patient(patient_id)
view_patient(patient_id) ==
    IF patient_id \in DOMAIN load_data
    THEN [status |-> 200, detail |-> "", body |-> <<load_data[patient_id]>>]
    ELSE [status |-> 404, detail |-> "Patient not found", body |-> <<>>]

\* GET /patient/{patient_id}
ViewPatient ==
    \E patient_id \in 1..(NPatients + 1) :
        /\ request' = [path |-> "/patient", sort_by |-> "", order |-> "", id |-> patient_id]
        /\ response' = view_patient(patient_id)
        /\ loads' = 1
        /\ UNCHANGED data
        /\ UNCHANGED patientVars

InitPatient ==
    /\ pc = "idle"
    /\ raw \in RawInputs
    /\ patient = NoPatient
    /\ validated = NoPatient
    /\ exc = NoError
    /\ trace = <<>>
    /\ seen = NoPatient
    /\ assigns = 0
    /\ lastAssign = NoAssign
    /\ lastBmi = NoBmi

NoRequest == [path |-> "none", sort_by |-> "", order |-> ""]
NoResponse == [status |-> 0, detail |-> "", body |-> <<>>]

InitApi ==
    /\ request = NoRequest
    /\ response = NoResponse
    /\ loads = 0

\* a caller of the Patient class, holding some keyword arguments
Init ==
    /\ InitPatient
    /\ InitApi
    /\ data = <<>>

Next == Construct \/ ReadBmi \/ Assign

Spec == Init /\ [][Next]_vars

\* the API process of main.py, started beside some patients.json
InitSort ==
    /\ pc = "idle"
    /\ raw = NoPatient
    /\ patient = NoPatient
    /\ validated = NoPatient
    /\ exc = NoError
    /\ trace = <<>>
    /\ seen = NoPatient
    /\ assigns = 0
    /\ lastAssign = NoAssign
    /\ lastBmi = NoBmi
    /\ InitApi
    /\ data \in DataFiles

NextSort == SortPatients \/ Hello \/ About \/ View \/ ViewPatient

SpecSort == InitSort /\ [][NextSort]_vars

(***************************************************************************)
(* The declared constraints, stated on the raw input                       *)
(***************************************************************************)
AllowedDomains == {<<"hdfc.com">>, <<"icici.com">>}

AtCount(s) == Cardinality({i \in 1..Len(s) : s[i] = "@"})
FirstAt(s) == CHOOSE i \in 1..Len(s) : s[i] = "@" /\ \A j \in 1..(i - 1) : s[j] # "@"
TextAfterAt(s) == SubSeq(s, FirstAt(s) + 1, Len(s))
TextBeforeAt(s) == SubSeq(s, 1, FirstAt(s) - 1)

\* one "@", with text on both sides of it
EmailWellFormed(x) ==
    /\ x.t = "str"
    /\ AtCount(x.v) = 1
    /\ x.v[1] # "@"
    /\ x.v[Len(x.v)] # "@"

HasEmergency(x) == x.t = "dict" /\ "emergency" \in DOMAIN x.v

FieldValid(f, x) ==
    CASE f = "name" -> x.t = "str" /\ Len(x.v) <= MaxLength
      [] f = "age" -> x.t = "int" /\ x.v > AgeGt /\ x.v < AgeLt
      [] f = "email" -> EmailWellFormed(x) /\ Lower(TextAfterAt(x.v)) \in AllowedDomains
      [] f = "weight" -> x.t = "float" /\ x.v.m > 0
      [] f = "height" -> x.t = "float" /\ x.v.m > 0
      [] f = "married" -> x.t \in {"missing", "bool"}
      [] f = "allergies" ->
            x.t \in {"missing", "None"} \/ (x.t = "list" /\ Len(x.v) <= MaxAllergies)
      [] f = "contact_details" -> x.t = "dict"
      [] f = "address" -> x.t = "Address"

FieldSet == {Fields[i] : i \in 1..Len(Fields)}
InvalidFields(r) == {f \in FieldSet : ~FieldValid(f, r[f])}

\* every field constraint and the cross-field rule
ValidInput(r) ==
    /\ InvalidFields(r) = {}
    /\ r.age.v > ElderlyAge => HasEmergency(r.contact_details)

\* the declared constraints, on an instance
Constraints(p) ==
    /\ Len(p.name) <= MaxLength
    /\ p.age > AgeGt /\ p.age < AgeLt
    /\ p.weight.m > 0
    /\ p.height.m > 0
    /\ p.allergies.t = "list" => Len(p.allergies.v) <= MaxAllergies
    /\ TextAfterAt(p.email) \in AllowedDomains
    /\ p.age > ElderlyAge => "emergency" \in DOMAIN p.contact_details

\* the same without the length of the stored name
ConstraintsButNameLength(p) ==
    /\ p.age > AgeGt /\ p.age < AgeLt
    /\ p.weight.m > 0
    /\ p.height.m > 0
    /\ p.allergies.t = "list" => Len(p.allergies.v) <= MaxAllergies
    /\ TextAfterAt(p.email) \in AllowedDomains
    /\ p.age > ElderlyAge => "emergency" \in DOMAIN p.contact_details

MissingEmergencyError ==
    [type |-> "ValidationError",
     errors |-> <<[field |-> "__model__", kind |-> "missing_emergency"]>>]

HasError(f, k) == \E i \in 1..Len(exc.errors) : exc.errors[i] = [field |-> f, kind |-> k]
HasErrorOn(f) == \E i \in 1..Len(exc.errors) : exc.errors[i].field = f

InTrace(stage) == \E i \in 1..Len(trace) : trace[i] = stage
Index(stage) == CHOOSE i \in 1..Len(trace) : trace[i] = stage

\* b hundredths is weight / height^2 rounded to the nearest hundredth
NearestHundredth(w, h, b) ==
    LET k == w.e - 2 * h.e
        num == 100 * w.m * (IF k > 0 THEN 2 ^ k ELSE 1)
        den == h.m * h.m * (IF k < 0 THEN 2 ^ (-k) ELSE 1)
    IN /\ 2 * (num - b * den) <= den
       /\ 2 * (b * den - num) <= den

JOHNDOE == <<"J", "O", "H", "N", " ", "D", "O", "E">>

(***************************************************************************)
(* C1                                                                      *)
(***************************************************************************)
\* C1: a construction either returns an instance that satisfies every
\* declared constraint (name length <= 50, 0 < age < 120, weight > 0,
\* height > 0, at most 5 allergies, an allowed e-mail domain, an emergency
\* contact when age > 60), or raises and returns no instance.
C1_ValidOrError ==
    pc # "idle" =>
        \/ /\ pc = "returned"
           /\ validated.t = "Patient"
           /\ exc = NoError
           /\ Constraints(validated)
        \/ /\ pc = "raised"
           /\ patient.t = "none"
           /\ exc # NoError

(***************************************************************************)
(* C2                                                                      *)
(***************************************************************************)
NoEmergencyOver60 ==
    /\ pc # "idle"
    /\ raw.age.t = "int"
    /\ raw.age.v > ElderlyAge
    /\ raw.age.v < AgeLt
    /\ ~HasEmergency(raw.contact_details)

\* C2 as stated: with age in (60, 120) and no 'emergency' key, construction
\* fails with the missing-emergency-contact error whatever the other fields.
C2_Original == NoEmergencyOver60 => pc = "raised" /\ exc = MissingEmergencyError

\* C2: with age in (60, 120) and no 'emergency' key, construction fails and
\* returns no instance; the error is the missing-emergency-contact error
\* exactly when every field is valid, and otherwise it lists the invalid
\* fields and the emergency check has not run.
C2_Amended ==
    NoEmergencyOver60 =>
        /\ pc = "raised"
        /\ patient.t = "none"
        /\ IF InvalidFields(raw) = {}
           THEN exc = MissingEmergencyError
           ELSE /\ exc.type = "ValidationError"
                /\ {exc.errors[i].field : i \in 1..Len(exc.errors)} = InvalidFields(raw)
                /\ ~InTrace("validate_emergency_contact")

C2_Witness ==
    /\ NoEmergencyOver60
    /\ InvalidFields(raw) = {}
    /\ raw.age.v = ElderlyAge + 1
    /\ exc = MissingEmergencyError

(***************************************************************************)
(* C3                                                                      *)
(***************************************************************************)
\* C3: an input that satisfies every field constraint and the cross-field
\* rule is constructed, reading bmi of the instance does not fail, and bmi
\* is weight / height^2 rounded to 2 places (70 and 1.75 give 22.86).
C3_ValidInputSucceeds ==
    (pc # "idle" /\ ValidInput(raw)) =>
        /\ pc = "returned"
        /\ bmi(validated).ok
        /\ NearestHundredth(validated.weight, validated.height, bmi(validated).v)
        /\ (validated.weight = F(70, 0) /\ validated.height = F(7, -2))
               => bmi(validated).v = 2286

(***************************************************************************)
(* C4                                                                      *)
(***************************************************************************)
\* C4 as stated: an e-mail whose text after '@' is not an allowed domain
\* fails with the invalid-domain error; one whose text after '@' is allowed
\* passes and is stored as given.
C4_Original ==
    (pc # "idle" /\ raw.email.t = "str" /\ AtCount(raw.email.v) >= 1) =>
        IF TextAfterAt(raw.email.v) \in AllowedDomains
        THEN /\ ~HasErrorOn("email")
             /\ pc = "returned" => validated.email = raw.email.v
        ELSE pc = "raised" /\ HasError("email", "invalid_domain")

\* C4: a well-formed e-mail whose domain, lowercased as EmailStr normalises
\* it, is not an allowed domain fails with the invalid-domain error; one
\* whose lowercased domain is allowed passes validate_email_domain, which
\* returns the normalised address it was given; an e-mail that is not
\* well-formed fails with the syntax error of EmailStr.
C4_Amended ==
    (pc # "idle" /\ raw.email.t = "str") =>
        IF ~EmailWellFormed(raw.email)
        THEN pc = "raised" /\ HasError("email", "email_syntax")
        ELSE IF Lower(TextAfterAt(raw.email.v)) \in AllowedDomains
        THEN /\ ~HasErrorOn("email")
             /\ pc = "returned" =>
                    validated.email = TextBeforeAt(raw.email.v) \o <<"@">>
                                          \o Lower(TextAfterAt(raw.email.v))
        ELSE pc = "raised" /\ HasError("email", "invalid_domain")

C4_Witness ==
    /\ pc = "raised"
    /\ raw.email.v = <<"john", "@", "gmail.com">>
    /\ HasError("email", "invalid_domain")

(***************************************************************************)
(* C5                                                                      *)
(***************************************************************************)
\* C5: age <= 0 and age >= 120 fail; every age from 1 to 119 is constructed
\* when the other fields are valid and, above 60, contact_details holds
\* 'emergency'; 60 needs no emergency contact and 61 does.
C5_AgeBounds ==
    (pc # "idle" /\ raw.age.t = "int") =>
        /\ (raw.age.v <= 0 \/ raw.age.v >= 120) => pc = "raised"
        /\ (/\ raw.age.v >= 1
            /\ raw.age.v <= 119
            /\ InvalidFields(raw) \subseteq {"age"}
            /\ raw.age.v > 60 => HasEmergency(raw.contact_details)) => pc = "returned"
        /\ (raw.age.v = 61 /\ ~HasEmergency(raw.contact_details)) => pc = "raised"

(***************************************************************************)
(* C6                                                                      *)
(***************************************************************************)
\* C6: the name of a constructed Patient is the uppercase form of the input
\* name ('John Doe' is stored as 'JOHN DOE'), it holds no lowercase letter,
\* and uppercasing it again leaves it unchanged.
C6_NameUppercased ==
    pc = "returned" =>
        /\ patient.name = Upper(raw.name.v)
        /\ Upper(patient.name) = patient.name
        /\ \A i \in 1..Len(patient.name) : patient.name[i] \notin LowerChars
        /\ raw.name.v = JohnDoe => patient.name = JOHNDOE

C6_Witness ==
    /\ pc = "returned"
    /\ raw.name.v = JohnDoe
    /\ patient.name = JOHNDOE

FirstInvalid(r) ==
    CHOOSE i \in 1..Len(Fields) :
        /\ Fields[i] \in InvalidFields(r)
        /\ \A j \in 1..(i - 1) : Fields[j] \notin InvalidFields(r)

\* the first check made on a field that the input gives
FirstStage(f) ==
    CASE f = "name" -> "name:str"
      [] f = "age" -> "age:int"
      [] f = "email" -> "email:str"
      [] f = "weight" -> "weight:float"
      [] f = "height" -> "height:float"
      [] f = "married" -> "married:bool"
      [] f = "allergies" -> "allergies:list"
      [] f = "contact_details" -> "contact_details:dict"
      [] f = "address" -> "address:Address"

AfterFieldStages == {"assemble", "validate_emergency_contact", "bmi"}

\* C9: the length of the name is checked on the raw name before
\* capitalize_name runs; every field is validated before the record is
\* assembled; validate_emergency_contact runs after the assembly, on the
\* assembled record (uppercased name, validated age), and only when no
\* field has failed.
C9_StageOrder ==
    pc # "idle" =>
        /\ InTrace("name:capitalize_name") <=>
               (raw.name.t = "str" /\ Len(raw.name.v) <= MaxLength)
        /\ InTrace("name:capitalize_name") =>
               /\ InTrace("name:max_length")
               /\ Index("name:max_length") < Index("name:capitalize_name")
        /\ InTrace("assemble") =>
               /\ InvalidFields(raw) = {}
               /\ \A i \in 1..Len(trace) :
                      trace[i] \notin AfterFieldStages => i < Index("assemble")
        /\ InTrace("validate_emergency_contact") <=> InvalidFields(raw) = {}
        /\ InTrace("validate_emergency_contact") =>
               /\ InTrace("assemble")
               /\ Index("assemble") < Index("validate_emergency_contact")
               /\ seen.t = "Patient"
               /\ seen.name = Upper(raw.name.v)
               /\ seen.age = raw.age.v
        /\ ~InTrace("validate_emergency_contact") => seen.t = "none"

C9_Witness ==
    /\ pc = "raised"
    /\ InTrace("validate_emergency_contact")
    /\ raw.name.v = JohnDoe
    /\ seen.name = JOHNDOE
    /\ exc = MissingEmergencyError

(***************************************************************************)
(* C10                                                                     *)
(***************************************************************************)
Count(s, r) == Cardinality({i \in 1..Len(s) : s[i] = r})

SameRecords(s, d) ==
    /\ Len(s) = Len(d)
    /\ \A r \in PatientRecords : Count(s, r) = Count(d, r)

\* C10: GET /sort answers 400 without loading the data when sort_by is not
\* height, weight or bmi (first) or order is not ascending or descending;
\* otherwise it answers the records of the data file, none added or
\* dropped, non-decreasing in sort_by for ascending (the default) and
\* non-increasing for descending.
C10_Sort ==
    request.path = "/sort" =>
        IF request.sort_by \notin {"height", "weight", "bmi"}
        THEN response.status = 400 /\ response.detail = "Invalid field" /\ loads = 0
        ELSE IF request.order \notin {"ascending", "descending", Omitted}
        THEN response.status = 400 /\ response.detail = "Invalid order" /\ loads = 0
        ELSE /\ response.status = 200
             /\ loads = 1
             /\ SameRecords(response.body, data)
             /\ \A i \in 1..(Len(response.body) - 1) :
                    IF request.order = "descending"
                    THEN response.body[i][request.sort_by]
                             >= response.body[i + 1][request.sort_by]
                    ELSE response.body[i][request.sort_by]
                             <= response.body[i + 1][request.sort_by]

C10_Witness ==
    /\ request.path = "/sort"
    /\ request.order = "descending"
    /\ response.status = 200
    /\ \E i \in 1..(Len(response.body) - 1) :
           response.body[i][request.sort_by] > response.body[i + 1][request.sort_by]
    /\ \E i \in 1..(Len(data) - 1) : data[i][request.sort_by] < data[i + 1][request.sort_by]

====
